---------------------------- MODULE Spec2Model ----------------------------
(* A model of src/src/bin/schedule.rs: the normalised weekday/hour/minute  *)
(* pattern (UnitSchedule), its positioned iterator (iter_since, Iter),     *)
(* and the timer-driven stream (Schedule) built over the merged iterators. *)
(*                                                                         *)
(* Time.  A NaiveDate is a day number, day 0 being a Sunday, so that       *)
(* weekday().num_days_from_sunday() is the day number modulo 7.  A         *)
(* NaiveDateTime and a DateTime<Tz> are numbers of seconds.                *)
EXTENDS Integers, Sequences, FiniteSets, TLC

VARIABLES
    inW, inH, inM,  \* the three vectors handed to UnitSchedule::new
    made,           \* <<>> before the call, <<result>> after it
    us,             \* the pattern iter_since is called on
    since,          \* the instant iter_since is called with
    iter,           \* <<>> before iter_since, <<its result>> after it
    emitted,        \* the timestamps Iter::next has returned, in order
    scheds,         \* the patterns handed to Schedule::new
    tz,             \* the time zone handed to Schedule::new
    now,            \* the wall clock, UTC::now()
    pc,             \* "new" before Schedule::new, "ready" after it,
                    \* "hung" once a call of the Schedule never returns
    upcoming,       \* Schedule.upcoming, the merged iterator
    next,           \* Schedule.next: <<>> for None, <<t>> for Some(t)
    waiting,        \* Schedule.waiting
    timers,         \* the threads spawned by set_timer
    unparked,       \* the task has been unparked and not yet polled
    lastPoll,       \* what the last call of poll read and returned
    lastFired,      \* the instant the previous fired signal was for
    merged,         \* the timestamps pulled from the merged iterator
    text,           \* the string handed to parse_range
    parsed,         \* <<>> before parse_range, <<its outcome>> after it
    doc,            \* the three values of a pattern in a configuration
    loaded          \* <<>> before deserialize, <<its outcome>> after it

newVars   == <<inW, inH, inM, made>>
iterVars  == <<us, since, iter, emitted>>
schedVars == <<scheds, tz, now, pc, upcoming, next, waiting, timers,
               unparked, lastPoll, lastFired, merged>>
loadVars  == <<text, parsed, doc, loaded>>
vars      == <<newVars, iterVars, schedVars, loadVars>>

---------------------------------------------------------------------------
(* Bounds of the model.                                                    *)

MaxLen == 2        \* longest input vector handed to UnitSchedule::new
MaxPulls == 6      \* most calls of next() on one iterator
MaxTimers == 2     \* most timer threads alive at once
MaxDay == 2        \* the wall clock stops at the end of this day
MaxText == 3       \* longest string drawn over TextChars for parse_range
MaxSeq == 2        \* longest sequence given for a field of a configuration

(* Program constants: the ends of the three domains.                       *)
NumWdays == 7
NumHours == 24
NumMins == 60

(* Values the input vectors are drawn from: values at the ends of each     *)
(* domain and the first value beyond it.                                   *)
WdayIn == {0, 6, 7}
HourIn == {23, 24}
MinIn  == {0, 60}

(* Values the patterns and instants of the iterator are drawn from.        *)
WdayVals == {0, 1, 4}
HourVals == {0, 12}
MinVals  == {0, 40}
SinceDays  == 0 .. 6
SinceHours == {0, 12, 23}
SinceMins  == {0, 40, 59}
SinceSecs  == {0, 30}

(* The wall clock moves between the occurrences of the patterns and the    *)
(* instants this many seconds before and after them.                       *)
TickOffsets == {-30, 0, 30}

---------------------------------------------------------------------------
(* Option and vectors.                                                     *)

None == [some |-> FALSE]
Some(x) == [some |-> TRUE, val |-> x]

Range(s) == {s[i] : i \in DOMAIN s}

VecsOver(S) == UNION {[1 .. n -> S] : n \in 0 .. MaxLen}

Last(s) == s[Len(s)]

(* Lexicographic comparison of tuples of equal length.                     *)
RECURSIVE TupleLess(_, _)
TupleLess(a, b) ==
    IF Len(a) = 0 THEN FALSE
    ELSE IF a[1] # b[1] THEN a[1] < b[1]
    ELSE TupleLess(Tail(a), Tail(b))

TupleLeq(a, b) == a = b \/ TupleLess(a, b)

(* Vec::sort on integers: the values below the middle element, sorted, the  *)
(* middle element, and the other values, sorted.                           *)
RECURSIVE Sort(_)
Sort(s) ==
    IF Len(s) <= 1 THEN s
    ELSE LET k == (Len(s) + 1) \div 2
             pivot == s[k]
             rest == SubSeq(s, 1, k - 1) \o SubSeq(s, k + 1, Len(s))
             Below(x) == x < pivot
             NotBelow(x) == x >= pivot
         IN  Sort(SelectSeq(rest, Below)) \o <<pivot>>
                 \o Sort(SelectSeq(rest, NotBelow))

(* Vec::dedup: removes consecutive repeated elements.                      *)
RECURSIVE Dedup(_)
Dedup(s) ==
    IF Len(s) <= 1 THEN s
    ELSE IF s[1] = s[2] THEN Dedup(Tail(s))
    ELSE <<s[1]>> \o Dedup(Tail(s))

---------------------------------------------------------------------------
(* UnitSchedule::new.                                                      *)

(* A regularize! that compares the last value with `<` instead of `<=`.    *)
RegularizeOffByOne(vec, start, end) ==
    IF vec = <<>> THEN Some([i \in 1 .. (end - start) |-> start + i - 1])
    ELSE LET v == Dedup(Sort(vec))
         IN  IF v[1] < start \/ end < Last(v) THEN None ELSE Some(v)

(* A regularize! that leaves out the sort.                                 *)
RegularizeNoSort(vec, start, end) ==
    IF vec = <<>> THEN Some([i \in 1 .. (end - start) |-> start + i - 1])
    ELSE LET v == Dedup(vec)
         IN  IF v[1] < start \/ end <= Last(v) THEN None ELSE Some(v)

(* A regularize! whose empty case leaves out the last value of the range.   *)
RegularizeEmptyShort(vec, start, end) ==
    IF vec = <<>> THEN Some([i \in 1 .. (end - start - 1) |-> start + i - 1])
    ELSE LET v == Dedup(Sort(vec))
         IN  IF v[1] < start \/ end <= Last(v) THEN None ELSE Some(v)

(* regularize!($vec, start..end): None stands for the `return None`.       *)
Regularize(vec, start, end) ==
    IF vec = <<>> THEN Some([i \in 1 .. (end - start) |-> start + i - 1])
    ELSE LET v == Dedup(Sort(vec))
         IN  IF v[1] < start \/ end <= Last(v) THEN None ELSE Some(v)

UnitScheduleNew(wdays, hours, mins) ==
    LET w == Regularize(wdays, 0, NumWdays)
        h == Regularize(hours, 0, NumHours)
        m == Regularize(mins, 0, NumMins)
    IN  IF ~w.some THEN None
        ELSE IF ~h.some THEN None
        ELSE IF ~m.some THEN None
        ELSE Some([wdays |-> w.val, hours |-> h.val, mins |-> m.val])

---------------------------------------------------------------------------
(* Dates and times (chrono).                                               *)

Weekday(date) == date % NumWdays            \* weekday().num_days_from_sunday()
AndHms(date, h, m, s) == ((date * NumHours + h) * NumMins + m) * 60 + s
SecsPerDay == AndHms(1, 0, 0, 0)
DateOf(t) == t \div SecsPerDay              \* NaiveDateTime::date
HourOf(t) == (t % SecsPerDay) \div (NumMins * 60)
MinuteOf(t) == (t % (NumMins * 60)) \div 60
SecondOf(t) == t % 60

---------------------------------------------------------------------------
(* util::CarryingUpIterator over a pattern's three vectors: the position   *)
(* <<i, j, k>> indexes the triple the next call of next() returns; the     *)
(* minute moves fastest and the position wraps after the last triple.      *)

CarryStart == <<1, 1, 1>>

CarryValue(p, pos) == <<p.wdays[pos[1]], p.hours[pos[2]], p.mins[pos[3]]>>

CarrySucc(p, pos) ==
    IF pos[3] < Len(p.mins) THEN <<pos[1], pos[2], pos[3] + 1>>
    ELSE IF pos[2] < Len(p.hours) THEN <<pos[1], pos[2] + 1, 1>>
    ELSE IF pos[1] < Len(p.wdays) THEN <<pos[1] + 1, 1, 1>>
    ELSE CarryStart

NumTriples(p) == Len(p.wdays) * Len(p.hours) * Len(p.mins)

---------------------------------------------------------------------------
(* UnitSchedule::iter_since.                                               *)

(* `while !self.wdays.contains(..)`: the date and time after the loop.     *)
RECURSIVE SkipToWday(_, _)
SkipToWday(p, dt) ==
    IF Weekday(dt.date) \in Range(p.wdays) THEN dt
    ELSE SkipToWday(p, [date |-> dt.date + 1, hm |-> <<0, 0>>])

(* The first `for whm in inner.by_ref()`.  `left` counts the triples not   *)
(* yet seen in this cycle: once the whole cycle has been compared without  *)
(* a break, the loop repeats it for ever.                                  *)
RECURSIVE PrimeFirst(_, _, _, _, _)
PrimeFirst(p, since_whm, pos, before_start, left) ==
    LET whm == CarryValue(p, pos)
    IN  IF TupleLess(since_whm, whm)
        THEN [hangs |-> FALSE, inner |-> CarrySucc(p, pos),
              before_start |-> before_start]
        ELSE IF left = 1
        THEN [hangs |-> TRUE, inner |-> CarrySucc(p, pos), before_start |-> whm]
        ELSE PrimeFirst(p, since_whm, CarrySucc(p, pos), whm, left - 1)

(* The second `for whm in inner.by_ref()`.                                 *)
RECURSIVE PrimeSecond(_, _, _)
PrimeSecond(p, pos, before_start) ==
    IF CarryValue(p, pos) = before_start THEN CarrySucc(p, pos)
    ELSE PrimeSecond(p, CarrySucc(p, pos), before_start)

(* The resulting Iter, or hangs = TRUE when the call never returns.        *)
IterSince(p, t) ==
    LET rolled == IF TupleLeq(<<Last(p.hours), Last(p.mins)>>,
                              <<HourOf(t), MinuteOf(t)>>)
                  THEN [date |-> DateOf(t) + 1, hm |-> <<0, 0>>]
                  ELSE [date |-> DateOf(t), hm |-> <<HourOf(t), MinuteOf(t)>>]
        dt == SkipToWday(p, rolled)
        since_whm == <<Weekday(dt.date), dt.hm[1], dt.hm[2]>>
        first == PrimeFirst(p, since_whm, CarryStart,
                            <<Last(p.wdays), Last(p.hours), Last(p.mins)>>,
                            NumTriples(p))
    IN  IF first.hangs THEN [hangs |-> TRUE, inner |-> first.inner, date |-> dt.date]
        ELSE [hangs |-> FALSE,
              inner |-> PrimeSecond(p, first.inner, first.before_start),
              date |-> dt.date]

---------------------------------------------------------------------------
(* Iter::next: the timestamp returned and the iterator after the call.     *)

(* An `if` in place of the `while`: the date advances by one day at most.   *)
AdvanceOneDay(date, wday) ==
    IF Weekday(date) = wday THEN date ELSE date + 1

RECURSIVE AdvanceToWday(_, _)
AdvanceToWday(date, wday) ==
    IF Weekday(date) = wday THEN date ELSE AdvanceToWday(date + 1, wday)

IterNext(p, it) ==
    LET whm == CarryValue(p, it.inner)
        date == AdvanceToWday(it.date, whm[1])
    IN  [val |-> AndHms(date, whm[2], whm[3], 0),
         it |-> [hangs |-> FALSE, inner |-> CarrySucc(p, it.inner), date |-> date]]

---------------------------------------------------------------------------
(* Time zones (chrono::TimeZone).  A zone has one change of its UTC offset *)
(* at the UTC instant `at`; a zone without a change has equal offsets.     *)

OffsetAt(z, utc) == IF utc < z.at THEN z.before ELSE z.after

(* TimeZone::from_utc_datetime(..).naive_local()                           *)
NaiveLocal(z, utc) == utc + OffsetAt(z, utc)

(* A resolution that takes the earlier of two interpretations.             *)
Earliest(z, local) ==
    LET both == {local - z.before, local - z.after}
        valid == {u \in both : NaiveLocal(z, u) = local}
    IN  IF valid = {} THEN None
        ELSE Some(CHOOSE u \in valid : \A v \in valid : u <= v)

(* TimeZone::from_local_datetime(..).latest(): the UTC instants whose      *)
(* local time is `local` are none (a skipped local time), one, or two (a   *)
(* repeated local time), and latest() is the later one.                    *)
Latest(z, local) ==
    LET both == {local - z.before, local - z.after}
        valid == {u \in both : NaiveLocal(z, u) = local}
    IN  IF valid = {} THEN None
        ELSE Some(CHOOSE u \in valid : \A v \in valid : v <= u)

(* No change of offset; an hour skipped from local 11:30 on day 1; an hour *)
(* repeated from local 12:30 on day 1.                                     *)
Utc      == [at |-> 0, before |-> 0, after |-> 0]
Forward  == [at |-> AndHms(1, 11, 30, 0), before |-> 0, after |-> 3600]
Backward == [at |-> AndHms(1, 12, 30, 0), before |-> 0, after |-> 0 - 3600]

Zones == {Utc, Forward, Backward}

---------------------------------------------------------------------------
(* util::MergedIterator over one Iter per pattern: one pending value per   *)
(* source; a pull emits the least pending value (the first source among    *)
(* equal ones) and refills that source alone.                              *)

MergedSource(p, it) ==
    LET r == IterNext(p, it) IN [it |-> r.it, pending |-> r.val]

MergedNew(ps, its) == [i \in DOMAIN ps |-> MergedSource(ps[i], its[i])]

MergedPull(ps, up) ==
    LET i == CHOOSE j \in DOMAIN up :
                 \A k \in DOMAIN up :
                     \/ up[j].pending < up[k].pending
                     \/ up[j].pending = up[k].pending /\ j <= k
    IN  [val |-> up[i].pending,
         up |-> [up EXCEPT ![i] = MergedSource(ps[i], up[i].it)]]

---------------------------------------------------------------------------
(* Schedule::new: one iter_since(now) per pattern, now in local time.      *)

ScheduleNew(ps, z, utc) ==
    LET its == [i \in DOMAIN ps |-> IterSince(ps[i], NaiveLocal(z, utc))]
    IN  IF \E i \in DOMAIN ps : its[i].hangs
        THEN [hangs |-> TRUE, up |-> <<>>]
        ELSE [hangs |-> FALSE, up |-> MergedNew(ps, its)]

---------------------------------------------------------------------------
(* Schedule::next.                                                         *)

(* A find() that also accepts the instant `now` itself.                    *)
IsAfterOrAt(tm, utc) == tm >= utc

(* `.find(|tm| tm > now)`                                                  *)
IsAfter(tm, utc) == tm > utc

(* Pulls self.upcoming until a timestamp resolves to an instant after now. *)
(* `seen` holds the states of the merged iterator this call has pulled     *)
(* from: the iterator is deterministic, so meeting one of them again means *)
(* the call pulls for ever.  `pulled` collects the timestamps pulled.      *)
RECURSIVE Search(_, _, _, _, _, _)
Search(ps, z, up, utc, seen, pulled) ==
    IF up \in seen THEN [hangs |-> TRUE, tm |-> 0, up |-> up, pulled |-> pulled]
    ELSE LET r == MergedPull(ps, up)
             tm == Latest(z, r.val)
         IN  IF tm.some /\ IsAfter(tm.val, utc)
             THEN [hangs |-> FALSE, tm |-> tm.val, up |-> r.up,
                   pulled |-> Append(pulled, r.val)]
             ELSE Search(ps, z, r.up, utc, seen \cup {up}, Append(pulled, r.val))

ScheduleNext(ps, z, up, utc) == Search(ps, z, up, utc, {}, <<>>)

---------------------------------------------------------------------------
(* Schedule::set_timer and the thread it spawns.  A timer is               *)
(* [pc, until]: "sleep" in thread::sleep(dur), which returns once the      *)
(* clock has reached `until`; "unpark" before task.unpark(); "store"       *)
(* before waiting.store(false); "none" for a slot holding no thread.       *)

NoTimer == [pc |-> "none", until |-> 0]

Alive(t) == t.pc # "none"

FreeSlots == {i \in DOMAIN timers : ~Alive(timers[i])}

SetTimer(dur) ==
    /\ FreeSlots # {}
    /\ waiting' = TRUE
    /\ LET i == CHOOSE j \in FreeSlots : \A k \in FreeSlots : j <= k
       IN  timers' = [timers EXCEPT ![i] = [pc |-> "sleep", until |-> now + dur]]

TimerSleep(i) ==
    /\ timers[i].pc = "sleep"
    /\ now >= timers[i].until
    /\ timers' = [timers EXCEPT ![i].pc = "unpark"]
    /\ UNCHANGED <<scheds, tz, now, pc, upcoming, next, waiting, unparked,
                   lastPoll, lastFired, merged, newVars, iterVars, loadVars>>

TimerUnpark(i) ==
    /\ timers[i].pc = "unpark"
    /\ unparked' = TRUE
    /\ timers' = [timers EXCEPT ![i].pc = "store"]
    /\ UNCHANGED <<scheds, tz, now, pc, upcoming, next, waiting,
                   lastPoll, lastFired, merged, newVars, iterVars, loadVars>>

TimerStore(i) ==
    /\ timers[i].pc = "store"
    /\ waiting' = FALSE
    /\ timers' = [timers EXCEPT ![i] = NoTimer]
    /\ UNCHANGED <<scheds, tz, now, pc, upcoming, next, unparked,
                   lastPoll, lastFired, merged, newVars, iterVars, loadVars>>

---------------------------------------------------------------------------
(* Schedule::poll.                                                         *)

(* A to_std() that fails on a zero duration too.                           *)
ToStdOkPositive(dur) == dur > 0

(* Duration::to_std() is Ok for a duration that is not negative.           *)
ToStdOk(dur) == dur >= 0

(* `pulled`: the timestamps the call pulled from self.upcoming.            *)
NoPoll == [result |-> "none", now |-> 0, cached |-> 0, next |-> 0, prev |-> <<>>,
           pulled |-> <<>>]

(* The call never returns: a search of Schedule::next pulls for ever.      *)
PollHangs ==
    /\ pc' = "hung"
    /\ lastPoll' = [NoPoll EXCEPT !.result = "hung", !.now = now]
    /\ UNCHANGED <<upcoming, next, waiting, timers, lastFired>>

Poll ==
    /\ pc = "ready"
    /\ unparked' = FALSE
    /\ LET first == IF next = <<>>
                    THEN ScheduleNext(scheds, tz, upcoming, now)
                    ELSE [hangs |-> FALSE, tm |-> next[1], up |-> upcoming,
                          pulled |-> <<>>]
           cached == first.tm
       IN  IF first.hangs THEN PollHangs
           ELSE IF ToStdOk(cached - now)
           THEN /\ next' = <<cached>>
                /\ upcoming' = first.up
                /\ IF ~waiting THEN SetTimer(cached - now)
                   ELSE UNCHANGED <<waiting, timers>>
                /\ lastPoll' = [result |-> "NotReady", now |-> now,
                                cached |-> cached, next |-> cached,
                                prev |-> lastFired, pulled |-> first.pulled]
                /\ UNCHANGED <<pc, lastFired>>
           ELSE LET second == ScheduleNext(scheds, tz, first.up, now)
                IN  IF second.hangs THEN PollHangs
                    ELSE /\ next' = <<second.tm>>
                         /\ upcoming' = second.up
                         /\ SetTimer(second.tm - now)
                         /\ lastPoll' = [result |-> "Ready", now |-> now,
                                         cached |-> cached, next |-> second.tm,
                                         prev |-> lastFired,
                                         pulled |-> second.pulled]
                         /\ lastFired' = <<cached>>
                         /\ UNCHANGED pc
    /\ UNCHANGED <<scheds, tz, now, merged, newVars, iterVars, loadVars>>

(* The runtime polls the stream first, when its task has been unparked,    *)
(* and again after each item.                                              *)
Due == unparked \/ lastPoll.result \in {"none", "Ready"}

PollDue == Due /\ Poll

(* A poll nothing asked for, as when the task is woken for another reason. *)
PollSpurious == ~Due /\ Poll

---------------------------------------------------------------------------
(* Strings and u32.  A string is a sequence of one-character strings.  A   *)
(* u32 is a pair <<hi, lo>> of 16-bit halves, its value hi * 2^16 + lo, so *)
(* that the whole width of the type is kept.                               *)

Digits == <<"0", "1", "2", "3", "4", "5", "6", "7", "8", "9">>

IsDigit(c) == \E i \in DOMAIN Digits : Digits[i] = c

DigitVal(c) == (CHOOSE i \in DOMAIN Digits : Digits[i] = c) - 1

Half == 2 ^ 16

U32(n) == <<n \div Half, n % Half>>

U32Less(a, b) == a[1] < b[1] \/ (a[1] = b[1] /\ a[2] < b[2])

(* The digits of a decimal number, most significant first, added to acc;   *)
(* None when the value leaves u32 (checked_mul and checked_add).           *)
RECURSIVE Accumulate(_, _)
Accumulate(digits, acc) ==
    IF digits = <<>> THEN Some(acc)
    ELSE LET lo == acc[2] * 10 + DigitVal(digits[1])
             hi == acc[1] * 10 + lo \div Half
         IN  IF hi >= Half THEN None
             ELSE Accumulate(Tail(digits), <<hi, lo % Half>>)

(* str::parse::<u32>(): an optional '+', then one or more decimal digits   *)
(* whose value fits u32; None stands for the Err.                          *)
ParseU32(s) ==
    LET digits == IF s # <<>> /\ s[1] = "+" THEN Tail(s) ELSE s
    IN  IF digits = <<>> \/ \E i \in DOMAIN digits : ~IsDigit(digits[i])
        THEN None
        ELSE Accumulate(digits, <<0, 0>>)

(* `1 + e` on u32, as a build without overflow checks computes it.         *)
WrappingSucc(e) ==
    IF e[2] + 1 < Half THEN <<e[1], e[2] + 1>> ELSE <<(e[1] + 1) % Half, 0>>

(* `1 + e` overflows u32.                                                  *)
SuccOverflows(e) == e[1] = Half - 1 /\ e[2] = Half - 1

---------------------------------------------------------------------------
(* parse_range.  Its outcomes: the Err, the Ok range start..end, or the    *)
(* panic of `1 + e` in a build with overflow checks; a build without them  *)
(* wraps.  Both builds are outcomes of the call.                           *)

ParseErr == [kind |-> "Err"]
ParsePanic == [kind |-> "Panic"]
ParseOk(start, end) == [kind |-> "Ok", start |-> start, end |-> end]

(* s.find('-'): the index of the first '-', or 0 for None.                 *)
FindDash(s) ==
    IF \E i \in DOMAIN s : s[i] = "-"
    THEN CHOOSE i \in DOMAIN s :
             s[i] = "-" /\ \A j \in 1 .. (i - 1) : s[j] # "-"
    ELSE 0

ParseRange(s) ==
    LET i == FindDash(s)
    IN  IF i = 0 THEN {ParseErr}
        ELSE LET st == ParseU32(SubSeq(s, 1, i - 1))
                 e == ParseU32(SubSeq(s, i + 1, Len(s)))
             IN  IF ~st.some THEN {ParseErr}
                 ELSE IF ~e.some THEN {ParseErr}
                 ELSE IF SuccOverflows(e.val)
                 THEN {ParsePanic, ParseOk(st.val, WrappingSucc(e.val))}
                 ELSE {ParseOk(st.val, WrappingSucc(e.val))}

---------------------------------------------------------------------------
(* impl Deserialize for UnitSchedule.  A value of the configuration is a   *)
(* unit (the field left out), an integer, a string or a sequence of        *)
(* integers and strings.                                                   *)

DocUnit == [kind |-> "unit"]
DocInt(n) == [kind |-> "int", n |-> n]
DocStr(s) == [kind |-> "str", s |-> s]
DocSeq(elems) == [kind |-> "seq", elems |-> elems]

NumsErr == [kind |-> "Err"]
NumsPanic == [kind |-> "Panic"]
NumsOk(vec) == [kind |-> "Ok", vec |-> vec]

(* visit_as_u32!: `0 <= n && n as u64 <= u32::MAX as u64`                  *)
VisitAsU32(n) == 0 <= n /\ n \div Half < Half

ToInt(u) == u[1] * Half + u[2]

(* The values of a Range<u32>, in order: none when start >= end.           *)
Collect(r) ==
    IF U32Less(r.start, r.end)
    THEN [i \in 1 .. (ToInt(r.end) - ToInt(r.start)) |->
             ToInt(r.start) + i - 1]
    ELSE <<>>

(* NumsVisitor::visit_str                                                  *)
VisitStr(s) ==
    {IF r.kind = "Ok" THEN NumsOk(Collect(r))
     ELSE IF r.kind = "Panic" THEN NumsPanic ELSE NumsErr : r \in ParseRange(s)}

(* NumsVisitor::visit_seq: the `while let Some(num_or_range) = v.visit()?` *)
(* over the elements left, `ret` holding the numbers collected so far.     *)
RECURSIVE VisitSeq(_, _)
VisitSeq(elems, ret) ==
    IF elems = <<>> THEN {NumsOk(ret)}
    ELSE LET e == elems[1]
         IN  IF e.kind = "int"
             THEN IF VisitAsU32(e.n) THEN VisitSeq(Tail(elems), Append(ret, e.n))
                  ELSE {NumsErr}
             ELSE IF e.kind = "str"
             THEN UNION {IF r.kind = "Ok"
                         THEN VisitSeq(Tail(elems), ret \o Collect(r))
                         ELSE IF r.kind = "Panic" THEN {NumsPanic} ELSE {NumsErr} :
                            r \in ParseRange(e.s)}
             ELSE {NumsErr}

(* deserialize_nums                                                        *)
DeserializeNums(v) ==
    IF v.kind = "unit" THEN {NumsOk(<<>>)}
    ELSE IF v.kind = "int"
    THEN {IF VisitAsU32(v.n) THEN NumsOk(<<v.n>>) ELSE NumsErr}
    ELSE IF v.kind = "str" THEN VisitStr(v.s)
    ELSE VisitSeq(v.elems, <<>>)

(* Unit::deserialize(d)? and then UnitSchedule::new(..).ok_or_else(..):    *)
(* the fields are read in order and the first failure ends the call.       *)
Deserialize(d) ==
    {IF w.kind # "Ok" THEN [kind |-> w.kind]
     ELSE IF h.kind # "Ok" THEN [kind |-> h.kind]
     ELSE IF m.kind # "Ok" THEN [kind |-> m.kind]
     ELSE LET r == UnitScheduleNew(w.vec, h.vec, m.vec)
          IN  IF r.some THEN [kind |-> "Ok", val |-> r.val]
              ELSE [kind |-> "Err"] :
        w \in DeserializeNums(d[1]), h \in DeserializeNums(d[2]),
        m \in DeserializeNums(d[3])}

---------------------------------------------------------------------------
(* The parts of the state a specification does not use.                    *)

IdleNew == /\ inW = <<>>
           /\ inH = <<>>
           /\ inM = <<>>
           /\ made = <<>>

IdleIter == /\ us = None
            /\ since = 0
            /\ iter = <<>>
            /\ emitted = <<>>

IdleSched == /\ scheds = <<>>
             /\ tz = Utc
             /\ now = 0
             /\ pc = "idle"
             /\ upcoming = <<>>
             /\ next = <<>>
             /\ waiting = FALSE
             /\ timers = <<>>
             /\ unparked = FALSE
             /\ lastPoll = NoPoll
             /\ lastFired = <<>>
             /\ merged = <<>>

IdleLoad == /\ text = <<>>
            /\ parsed = <<>>
            /\ doc = <<>>
            /\ loaded = <<>>

---------------------------------------------------------------------------
(* Construction: the arguments are drawn, then UnitSchedule::new runs.     *)

InitNew ==
    /\ inW \in VecsOver(WdayIn)
    /\ inH \in VecsOver(HourIn)
    /\ inM \in VecsOver(MinIn)
    /\ made = <<>>
    /\ IdleIter
    /\ IdleSched
    /\ IdleLoad

CallNew ==
    /\ made = <<>>
    /\ made' = <<UnitScheduleNew(inW, inH, inM)>>
    /\ UNCHANGED <<inW, inH, inM, iterVars, schedVars, loadVars>>

NextNew == CallNew

SpecNew == InitNew /\ [][NextNew]_vars

---------------------------------------------------------------------------
(* One iterator: a pattern and an instant are drawn, iter_since runs, and  *)
(* Iter::next is called up to MaxPulls times.                              *)

RECURSIVE SetToVec(_)
SetToVec(S) ==
    IF S = {} THEN <<>>
    ELSE LET x == CHOOSE y \in S : \A z \in S : y <= z
         IN  <<x>> \o SetToVec(S \ {x})

(* Patterns built by UnitSchedule::new: any set of weekdays (none given    *)
(* means all seven), and non-empty sets of hours and minutes.              *)
Patterns ==
    {UnitScheduleNew(SetToVec(W), SetToVec(H), SetToVec(M)).val :
        W \in SUBSET WdayVals,
        H \in (SUBSET HourVals) \ {{}},
        M \in (SUBSET MinVals) \ {{}}}

Instants ==
    {AndHms(d, h, m, s) :
        d \in SinceDays, h \in SinceHours, m \in SinceMins, s \in SinceSecs}

InitIter ==
    /\ us \in Patterns
    /\ since \in Instants
    /\ iter = <<>>
    /\ emitted = <<>>
    /\ IdleNew
    /\ IdleSched
    /\ IdleLoad

CallIterSince ==
    /\ iter = <<>>
    /\ iter' = <<IterSince(us, since)>>
    /\ UNCHANGED <<us, since, emitted, newVars, schedVars, loadVars>>

CallIterNext ==
    /\ iter # <<>>
    /\ ~iter[1].hangs
    /\ Len(emitted) < MaxPulls
    /\ LET r == IterNext(us, iter[1])
       IN  /\ iter' = <<r.it>>
           /\ emitted' = Append(emitted, r.val)
    /\ UNCHANGED <<us, since, newVars, schedVars, loadVars>>

NextIter == CallIterSince \/ CallIterNext

SpecIter == InitIter /\ [][NextIter]_vars

---------------------------------------------------------------------------
(* The Schedule: patterns, a zone and a starting time are drawn,           *)
(* Schedule::new runs, and then the clock, the polls and the timer threads *)
(* interleave.                                                             *)

PatOneDay  == UnitScheduleNew(<<1>>, <<0, 12>>, <<0>>).val
PatNoon    == UnitScheduleNew(<<1, 2>>, <<12>>, <<0>>).val
PatTwoDays == UnitScheduleNew(<<2, 1>>, <<12, 0>>, <<0>>).val
PatMidnight == UnitScheduleNew(<<1>>, <<0>>, <<0>>).val

SchedLists ==
    {<<PatOneDay>>, <<PatNoon>>, <<PatTwoDays>>,
     <<PatNoon, PatTwoDays>>, <<PatOneDay, PatNoon>>, <<PatMidnight>>}

StartInstants == {AndHms(0, 23, 59, 30), AndHms(1, 0, 0, 0)}

Horizon == AndHms(MaxDay + 1, 0, 0, 0)

(* The instants of the occurrences of the patterns up to the horizon.      *)
OccurrenceInstants ==
    LET locals == UNION {{AndHms(d, p.hours[j], p.mins[k], 0) :
                             d \in 0 .. MaxDay, j \in DOMAIN p.hours,
                             k \in DOMAIN p.mins} : p \in Range(scheds)}
    IN  {Latest(tz, l).val : l \in {x \in locals : Latest(tz, x).some}}

Init ==
    /\ scheds \in SchedLists
    /\ tz \in Zones
    /\ now \in StartInstants
    /\ pc = "new"
    /\ upcoming = <<>>
    /\ next = <<>>
    /\ waiting = FALSE
    /\ timers = [i \in 1 .. MaxTimers |-> NoTimer]
    /\ unparked = FALSE
    /\ lastPoll = NoPoll
    /\ lastFired = <<>>
    /\ merged = <<>>
    /\ IdleNew
    /\ IdleIter
    /\ IdleLoad

CallScheduleNew ==
    /\ pc = "new"
    /\ LET r == ScheduleNew(scheds, tz, now)
       IN  /\ pc' = IF r.hangs THEN "hung" ELSE "ready"
           /\ upcoming' = r.up
    /\ UNCHANGED <<scheds, tz, now, next, waiting, timers, unparked,
                   lastPoll, lastFired, merged, newVars, iterVars, loadVars>>

(* The clock moves on to the next instant of interest.                     *)
Tick ==
    /\ pc # "new"
    /\ LET targets == {t + d : t \in OccurrenceInstants, d \in TickOffsets}
           later == {t \in targets : t > now /\ t <= Horizon}
       IN  /\ later # {}
           /\ now' = CHOOSE t \in later : \A u \in later : t <= u
    /\ UNCHANGED <<scheds, tz, pc, upcoming, next, waiting, timers,
                   unparked, lastPoll, lastFired, merged, newVars, iterVars,
                   loadVars>>

NextWoken ==
    \/ CallScheduleNew
    \/ Tick
    \/ PollDue
    \/ \E i \in 1 .. MaxTimers : TimerSleep(i)
    \/ \E i \in 1 .. MaxTimers : TimerUnpark(i)
    \/ \E i \in 1 .. MaxTimers : TimerStore(i)

Next == NextWoken \/ PollSpurious

SpecWoken == Init /\ [][NextWoken]_vars

Spec == Init /\ [][Next]_vars

(* The merged iterator alone: Schedule::new, then up to MaxPulls pulls.    *)
CallMergedNext ==
    /\ pc = "ready"
    /\ Len(merged) < MaxPulls
    /\ LET r == MergedPull(scheds, upcoming)
       IN  /\ upcoming' = r.up
           /\ merged' = Append(merged, r.val)
    /\ UNCHANGED <<scheds, tz, now, pc, next, waiting, timers, unparked,
                   lastPoll, lastFired, newVars, iterVars, loadVars>>

NextMerge == CallScheduleNew \/ CallMergedNext

SpecMerge == Init /\ [][NextMerge]_vars

---------------------------------------------------------------------------
(* parse_range alone: a string is drawn and parse_range runs on it.        *)

TextChars == {"0", "1", "-", " ", "+"}

U32MaxText == <<"4", "2", "9", "4", "9", "6", "7", "2", "9", "5">>

(* The strings of the source's test, a range that runs backwards, and      *)
(* ends at and beyond the greatest u32.                                    *)
LongTexts ==
    {<<"1", "-", "6">>, <<"0", "-", "1", "1">>, <<"2", "-", " ", "3">>,
     <<"3", "-", "4", "-", "4">>, <<"5", "-", "1">>,
     <<"0", "-">> \o U32MaxText,
     <<"0", "-", "4", "2", "9", "4", "9", "6", "7", "2", "9", "4">>,
     <<"0", "-", "4", "2", "9", "4", "9", "6", "7", "2", "9", "6">>,
     U32MaxText \o <<"-", "0">>,
     <<"1", "-", "0", "0", "0", "0", "0", "0", "0", "0", "0", "0", "7">>}

Texts == UNION {[1 .. n -> TextChars] : n \in 0 .. MaxText} \cup LongTexts

InitParse ==
    /\ text \in Texts
    /\ parsed = <<>>
    /\ doc = <<>>
    /\ loaded = <<>>
    /\ IdleNew
    /\ IdleIter
    /\ IdleSched

CallParseRange ==
    /\ parsed = <<>>
    /\ \E r \in ParseRange(text) : parsed' = <<r>>
    /\ UNCHANGED <<text, doc, loaded, newVars, iterVars, schedVars>>

NextParse == CallParseRange

SpecParse == InitParse /\ [][NextParse]_vars

---------------------------------------------------------------------------
(* The loader alone: the three values of a pattern are drawn and           *)
(* UnitSchedule's deserialize runs on them.                                *)

(* The elements of a sequence: integers in and out of u32, a range and a   *)
(* range that runs backwards.                                              *)
DocElems ==
    {DocInt(1), DocInt(0 - 1), DocStr(<<"0", "-", "1">>),
     DocStr(<<"5", "-", "1">>)}

(* The values given for the weekdays.                                      *)
WdayDocs ==
    {DocUnit, DocInt(1), DocInt(7), DocInt(0 - 1),
     DocStr(<<"0", "-", "1">>), DocStr(<<"5", "-", "1">>),
     DocStr(<<"1">>), DocStr(<<"1", "-", "7">>)}
        \cup {DocSeq(es) :
                 es \in UNION {[1 .. n -> DocElems] : n \in 0 .. MaxSeq}}

(* The values given for the hours and for the minutes.                     *)
OtherDocs == {DocUnit, DocInt(0), DocSeq(<<>>), DocStr(<<"1", "-", "0">>)}

InitLoad ==
    /\ doc \in WdayDocs \X OtherDocs \X OtherDocs
    /\ loaded = <<>>
    /\ text = <<>>
    /\ parsed = <<>>
    /\ IdleNew
    /\ IdleIter
    /\ IdleSched

CallDeserialize ==
    /\ loaded = <<>>
    /\ \E r \in Deserialize(doc) : loaded' = <<r>>
    /\ UNCHANGED <<text, parsed, doc, newVars, iterVars, schedVars>>

NextLoad == CallDeserialize

SpecLoad == InitLoad /\ [][NextLoad]_vars

---------------------------------------------------------------------------
(* Properties of UnitSchedule::new, checked under SpecNew.                 *)

InDomain(vec, D) == \A i \in DOMAIN vec : vec[i] \in D

StrictlyAscending(vec) == \A i \in 1 .. (Len(vec) - 1) : vec[i] < vec[i + 1]

WellFormedField(vec, D) ==
    /\ vec # <<>>
    /\ StrictlyAscending(vec)
    /\ InDomain(vec, D)

SameSetVecs(vec, S) == {u \in VecsOver(S) : Range(u) = Range(vec)}

(* C9: UnitSchedule::new returns None if and only if some supplied value   *)
(* lies outside its field's domain (weekday 0..6, hour 0..23, minute       *)
(* 0..59); otherwise each of the three sets of the returned pattern is     *)
(* non-empty, strictly ascending and within its domain.                    *)
NewFailsIffOutOfDomain ==
    made # <<>> =>
        LET r == made[1]
            allIn == /\ InDomain(inW, 0 .. 6)
                     /\ InDomain(inH, 0 .. 23)
                     /\ InDomain(inM, 0 .. 59)
        IN  /\ (~r.some) <=> ~allIn
            /\ r.some => /\ WellFormedField(r.val.wdays, 0 .. 6)
                         /\ WellFormedField(r.val.hours, 0 .. 23)
                         /\ WellFormedField(r.val.mins, 0 .. 59)

(* The call has failed on a minute of 60 alone, the other fields valid.    *)
NewFailsWitness ==
    /\ made = <<None>>
    /\ InDomain(inW, 0 .. 6) /\ inW # <<>>
    /\ InDomain(inH, 0 .. 23) /\ inH # <<>>
    /\ 60 \in Range(inM)

(* C10: any two triples of vectors holding the same sets of weekday, hour  *)
(* and minute values (in any order, with any repetition) give equal        *)
(* results of UnitSchedule::new.                                           *)
NewOrderIndependent ==
    made # <<>> =>
        \A w \in SameSetVecs(inW, WdayIn) :
            \A h \in SameSetVecs(inH, HourIn) :
                \A m \in SameSetVecs(inM, MinIn) :
                    UnitScheduleNew(w, h, m) = made[1]

(* A pattern was built from a descending weekday vector and a repeated     *)
(* hour.                                                                   *)
NewOrderWitness ==
    /\ made # <<>>
    /\ made[1].some
    /\ Len(inW) = 2 /\ inW[1] > inW[2]
    /\ Len(inH) = 2 /\ inH[1] = inH[2]

(* The vector lo, lo + 1, ..., hi.                                         *)
Interval(lo, hi) == [i \in 1 .. (hi - lo + 1) |-> lo + i - 1]

(* C11: for each field on its own, an empty vector given to                *)
(* UnitSchedule::new yields the same result as the field's full domain     *)
(* (0..6, 0..23, 0..59) given in its place, whatever the other two fields  *)
(* are.                                                                    *)
NewEmptyIsFullDomain ==
    made # <<>> =>
        /\ inW = <<>> =>
              made[1] = UnitScheduleNew(Interval(0, 6), inH, inM)
        /\ inH = <<>> =>
              made[1] = UnitScheduleNew(inW, Interval(0, 23), inM)
        /\ inM = <<>> =>
              made[1] = UnitScheduleNew(inW, inH, Interval(0, 59))

(* A pattern was built from an empty weekday vector and given hours, and   *)
(* another field pair shows the empty minutes.                             *)
NewEmptyWitness ==
    /\ made # <<>>
    /\ made[1].some
    /\ inW = <<>>
    /\ inH # <<>>
    /\ inM = <<>>
    /\ made[1].val.wdays = Interval(0, 6)
    /\ made[1].val.mins = Interval(0, 59)

---------------------------------------------------------------------------
(* Properties of iter_since and Iter::next, checked under SpecIter.        *)

(* An occurrence of pattern p: weekday, hour and minute in p, second 0.    *)
Matches(p, t) ==
    /\ Weekday(DateOf(t)) \in Range(p.wdays)
    /\ HourOf(t) \in Range(p.hours)
    /\ MinuteOf(t) \in Range(p.mins)
    /\ SecondOf(t) = 0

(* The least occurrence of p strictly after t; one lies within 8 days.     *)
NextOccurrence(p, t) ==
    LET cands == {AndHms(d, p.hours[j], p.mins[k], 0) :
                     d \in DateOf(t) .. (DateOf(t) + NumWdays),
                     j \in DOMAIN p.hours, k \in DOMAIN p.mins}
        after == {c \in cands : c > t /\ Matches(p, c)}
    IN  CHOOSE c \in after : \A e \in after : c <= e

(* C1: every element produced by P.iter_since(T), not only the first, is   *)
(* strictly greater than T.                                                *)
EmittedAfterSince ==
    \A i \in DOMAIN emitted : emitted[i] > since

(* C2: the sequence produced by repeated next() on P.iter_since(T) is      *)
(* non-decreasing, also across the wrap of the cyclic counter and for a    *)
(* pattern with a single weekday.                                          *)
EmittedNonDecreasing ==
    \A i \in 1 .. (Len(emitted) - 1) : emitted[i] <= emitted[i + 1]

(* C3: the first element is the least occurrence of P strictly after T and *)
(* every later element is the least occurrence strictly after its          *)
(* predecessor, so that no occurrence after T is skipped.                  *)
EmittedEveryOccurrence ==
    \A i \in DOMAIN emitted :
        emitted[i] = NextOccurrence(us, IF i = 1 THEN since ELSE emitted[i - 1])

(* C14: iter_since terminates for every valid pattern and instant: its     *)
(* first loop meets a triple strictly greater than the target triple and   *)
(* its second loop comes back to the tracked last triple, also when the    *)
(* date was advanced, the time reset to 00:00, and the pattern has hours   *)
(* {0}, minutes {0} and the target weekday as its last weekday.            *)
IterSinceTerminates ==
    iter # <<>> => ~iter[1].hangs

(* C18: every timestamp returned by Iter::next satisfies the pattern: its  *)
(* weekday is in the pattern's weekday set and is the weekday of the       *)
(* counter triple it was built from, its hour and minute are in the        *)
(* pattern's sets and its seconds are 0; the tracked date never moves      *)
(* backwards and moves forward by fewer than 7 days in one pull.           *)
EmittedSatisfiesPattern ==
    [][emitted' # emitted =>
          LET t == Last(emitted')
              whm == CarryValue(us, iter[1].inner)
          IN  /\ Weekday(DateOf(t)) \in Range(us.wdays)
              /\ Weekday(DateOf(t)) = whm[1]
              /\ HourOf(t) = whm[2] /\ HourOf(t) \in Range(us.hours)
              /\ MinuteOf(t) = whm[3] /\ MinuteOf(t) \in Range(us.mins)
              /\ SecondOf(t) = 0
              /\ DateOf(t) = iter'[1].date
              /\ iter'[1].date >= iter[1].date
              /\ iter'[1].date - iter[1].date < 7]_vars

(* Two timestamps were returned, the second six days after the first.      *)
EmittedWitness ==
    /\ Len(emitted) >= 2
    /\ DateOf(emitted[2]) = DateOf(emitted[1]) + 6
    /\ Weekday(DateOf(emitted[2])) \in Range(us.wdays)

---------------------------------------------------------------------------
(* Properties of Schedule::poll and its timers.                            *)

AliveTimers == {i \in DOMAIN timers : Alive(timers[i])}

(* C4: whenever poll reports a fired signal, the time read by that poll is *)
(* strictly later than the next-fire instant cached on entry (or computed  *)
(* by that poll's first search).                                           *)
FiredOnlyAfterInstant ==
    lastPoll.result = "Ready" => lastPoll.now > lastPoll.cached

(* A poll that came late, after the clock had passed the cached instant    *)
(* by more than a tick, has reported a fired signal.                       *)
FiredLateWitness ==
    /\ lastPoll.result = "Ready"
    /\ lastPoll.now > lastPoll.cached + 30

(* C5: each poll that reports fired replaces the cached next-fire instant  *)
(* by one strictly greater than the current time, and the instants for     *)
(* which signals are reported are strictly increasing.                     *)
FiredOncePerInstant ==
    lastPoll.result = "Ready" =>
        /\ lastPoll.next > lastPoll.now
        /\ next = <<lastPoll.next>>
        /\ lastPoll.prev # <<>> => lastPoll.cached > lastPoll.prev[1]

(* A second signal has been reported, with two patterns in the merged      *)
(* stream that produce the same timestamps.                                *)
FiredTwiceWitness ==
    /\ lastPoll.result = "Ready"
    /\ lastPoll.prev # <<>>
    /\ scheds = <<PatNoon, PatTwoDays>>

(* C6: at most one thread spawned by set_timer has been started and has    *)
(* not yet finished.                                                       *)
AtMostOneTimer == Cardinality(AliveTimers) <= 1

(* C7: no state is reachable in which the last poll returned NotReady, no  *)
(* timer thread is outstanding and no wake-up is pending.                  *)
NoLostWakeup ==
    ~ /\ lastPoll.result = "NotReady"
      /\ AliveTimers = {}
      /\ ~unparked

(* C15: every call of Schedule::poll returns: the search of Schedule::next *)
(* ends after finitely many pulls for every non-empty list of valid        *)
(* patterns and every current time, single-weekday patterns whose slots of *)
(* the starting week have elapsed included.                                *)
PollReturns == lastPoll.result # "hung"

(* C16: a poll that finds the signed duration exactly zero (the time read  *)
(* equals the cached instant) behaves as in the negative case: it computes *)
(* the following occurrence strictly after that time, arms a fresh timer   *)
(* and reports one fired signal; only a strictly positive duration leads   *)
(* to the not-yet-ready result.                                            *)
ZeroDurationFires ==
    /\ lastPoll.result = "NotReady" => lastPoll.cached > lastPoll.now
    /\ (lastPoll.result \in {"NotReady", "Ready"}
            /\ lastPoll.cached <= lastPoll.now) =>
          /\ lastPoll.result = "Ready"
          /\ lastPoll.next > lastPoll.now
          /\ next = <<lastPoll.next>>

(* The UTC instants whose local time in zone z is `local`, found by trying *)
(* every half hour within two hours of it.                                 *)
Interpretations(z, local) ==
    {u \in {local + k * 1800 : k \in -4 .. 4} : NaiveLocal(z, u) = local}

MaxOf(S) == CHOOSE u \in S : \A v \in S : v <= u

(* n pulls of the merged stream: the timestamps and the stream afterwards. *)
RECURSIVE PullsFrom(_, _, _)
PullsFrom(ps, up, n) ==
    IF n = 0 THEN [vals |-> <<>>, up |-> up]
    ELSE LET r == MergedPull(ps, up)
             rest == PullsFrom(ps, r.up, n - 1)
         IN  [vals |-> <<r.val>> \o rest.vals, up |-> rest.up]

(* C17: a search resolves each local timestamp it pulls from the merged    *)
(* stream: one with a unique instant is used as is, an ambiguous one is    *)
(* taken as the later of its two instants, one that does not exist is      *)
(* discarded and the next is pulled; the result is the first resolved      *)
(* candidate strictly after now, and the candidates pulled on the way are  *)
(* consumed from the stream, which goes on after them.                     *)
SearchResolvesCandidates ==
    [][(/\ lastPoll' # lastPoll
        /\ lastPoll'.result \in {"NotReady", "Ready"}
        /\ lastPoll'.pulled # <<>>) =>
          LET c == lastPoll'.pulled
              k == Len(c)
              t == lastPoll'.now
              Resolves(l) == /\ Interpretations(tz, l) # {}
                             /\ MaxOf(Interpretations(tz, l)) > t
              drawn == PullsFrom(scheds, upcoming, k)
          IN  /\ Resolves(c[k])
              /\ lastPoll'.next = MaxOf(Interpretations(tz, c[k]))
              /\ next' = <<lastPoll'.next>>
              /\ \A i \in 1 .. (k - 1) : ~Resolves(c[i])
              /\ c = drawn.vals
              /\ upcoming' = drawn.up]_vars

(* A search has discarded a local time that does not exist and returned    *)
(* a later candidate.                                                      *)
SearchDiscardWitness ==
    /\ lastPoll.result \in {"NotReady", "Ready"}
    /\ Len(lastPoll.pulled) >= 2
    /\ \E i \in 1 .. (Len(lastPoll.pulled) - 1) :
           Interpretations(tz, lastPoll.pulled[i]) = {}
    /\ Interpretations(tz, Last(lastPoll.pulled)) # {}

---------------------------------------------------------------------------
(* Properties of the merged stream, checked under SpecMerge.               *)

(* The first n timestamps of pattern p's own iterator from local time t.   *)
RECURSIVE Take(_, _, _)
Take(p, it, n) ==
    IF n = 0 THEN <<>>
    ELSE LET r == IterNext(p, it) IN <<r.val>> \o Take(p, r.it, n - 1)

RECURSIVE Concat(_)
Concat(ss) == IF ss = <<>> THEN <<>> ELSE ss[1] \o Concat(Tail(ss))

(* The k-way merge by timestamp of the patterns' own sequences, to rank n. *)
MergeOfSequences(ps, t, n) ==
    LET own == [i \in DOMAIN ps |-> Take(ps[i], IterSince(ps[i], t), n)]
    IN  SubSeq(Sort(Concat(own)), 1, n)

(* C8: the merged stream is non-decreasing and equals, rank by rank, the   *)
(* k-way merge of the individual pattern sequences, equal timestamps of    *)
(* different patterns being each emitted.                                  *)
MergedIsSortedMerge ==
    pc = "ready" =>
        /\ \A i \in 1 .. (Len(merged) - 1) : merged[i] <= merged[i + 1]
        /\ merged = MergeOfSequences(scheds, NaiveLocal(tz, now), Len(merged))

---------------------------------------------------------------------------
(* Properties of parse_range, checked under SpecParse.                     *)

(* end + 1 as a number, outside u32 when end is the greatest u32.          *)
MathSucc(e) == IF e[2] + 1 < Half THEN <<e[1], e[2] + 1>> ELSE <<e[1] + 1, 0>>

(* C12: parse_range accepts exactly the strings <start>-<end>, start the   *)
(* text before the first '-' and end the text after it, both parsing as    *)
(* unsigned integers, and returns the half-open range start..end+1; every  *)
(* other string (no '-', an empty start or end, an embedded space, a       *)
(* second '-') is rejected with Err.                                       *)
ParseRangeAcceptsExactly ==
    parsed # <<>> =>
        LET i == FindDash(text)
            st == ParseU32(SubSeq(text, 1, i - 1))
            e == ParseU32(SubSeq(text, i + 1, Len(text)))
        IN  IF i # 0 /\ st.some /\ e.some
            THEN parsed[1] = ParseOk(st.val, MathSucc(e.val))
            ELSE parsed[1] = ParseErr

(* C13: no input makes parse_range abort or return a wrapped value: for    *)
(* every string whose end parses as u32, the greatest u32 included, the    *)
(* result is Err or a range whose upper bound is end + 1 as a number; the  *)
(* `1 + end` never overflows 32 bits.                                      *)
ParseRangeNeverOverflows ==
    parsed # <<>> =>
        LET i == FindDash(text)
            e == ParseU32(SubSeq(text, i + 1, Len(text)))
        IN  /\ parsed[1] # ParsePanic
            /\ (i # 0 /\ e.some /\ parsed[1].kind = "Ok") =>
                  /\ parsed[1].end = MathSucc(e.val)
                  /\ U32Less(e.val, parsed[1].end)

---------------------------------------------------------------------------
(* Properties of the loader, checked under SpecLoad.                       *)

(* The integers lo, ..., hi of the range expression s.                     *)
Inclusive(s) ==
    LET i == FindDash(s)
        lo == ToInt(ParseU32(SubSeq(s, 1, i - 1)).val)
        hi == ToInt(ParseU32(SubSeq(s, i + 1, Len(s))).val)
    IN  lo .. hi

(* The integers a supplied value denotes: the union of its integers and    *)
(* of its inclusive ranges.                                                *)
Denoted(v) ==
    IF v.kind = "int" THEN {v.n}
    ELSE IF v.kind = "str" THEN Inclusive(v.s)
    ELSE UNION {IF v.elems[j].kind = "int" THEN {v.elems[j].n}
                ELSE Inclusive(v.elems[j].s) : j \in DOMAIN v.elems}

(* C19: in the loader a field becomes the full domain only when it is left *)
(* out: whenever a field is supplied (an integer, a range expression or a  *)
(* sequence of these) and deserialization succeeds, the field's set is     *)
(* exactly the union of the integers and inclusive ranges supplied; a      *)
(* supplied value that denotes no integer (a range with start > end such   *)
(* as "5-1", an empty sequence) is rejected, not turned into the full      *)
(* domain.                                                                 *)
LoaderSuppliedIsExact ==
    (loaded # <<>> /\ loaded[1].kind = "Ok") =>
        LET p == loaded[1].val
            got == <<Range(p.wdays), Range(p.hours), Range(p.mins)>>
        IN  \A f \in 1 .. 3 :
                doc[f].kind # "unit" =>
                    /\ Denoted(doc[f]) # {}
                    /\ got[f] = Denoted(doc[f])

===========================================================================
